---- MODULE Spec2Model ----
(***************************************************************************)
(* Model of the synchronous triage service of src/app.py (Flask route      *)
(* POST /send_message: receive -> LLM -> SQL -> respond, and GET /chat)    *)
(* and of the queue worker job of src/tasks.py.                            *)
(*                                                                         *)
(* Python values are modelled as pairs <<type, text>>; a dict with the     *)
(* three triage keys is a record whose fields are such pairs, Absent       *)
(* marking a key the dict does not have.  Strings of the source are kept   *)
(* in ASCII.  The external collaborators (Gemini API, MySQL server) are    *)
(* inputs of the actions: each request draws what they answer.             *)
(***************************************************************************)
EXTENDS Integers, Sequences, FiniteSets, TLC

VARIABLES
    db,             \* MySQL: [table: set of rows of 'caso', autoInc: next id]
    env,            \* process environment: [GEMINI_API_KEY: BOOLEAN]
    request,        \* the request handled last: [route, body]
    response,       \* the HTTP response returned last
    calls,          \* calls made while handling it: [llm, store]
    llm_reply,      \* what the Gemini API answered in it (or NoReply)
    processed_data, \* what call_llm_api returned in it (or NotCalled)
    persisted,      \* outcome of persist_case_to_sql in it
    stdout,         \* the lines printed by the last operation
    history         \* counters over all requests: [requests, records, commits]

vars == <<db, env, request, response, calls, llm_reply, processed_data,
          persisted, stdout, history>>

\* Number of POST /send_message requests a behaviour handles.
MaxRequests == 3

-----------------------------------------------------------------------------
(* Python values *)

None == <<"None", "">>
Absent == <<"absent", "">>
Str(s) == <<"str", s>>

\* bool(v) of Python for the values a JSON body can carry.
Truthy(v) ==
    CASE v[1] = "None" -> FALSE
      [] v[1] = "absent" -> FALSE
      [] v[1] = "str" -> v[2] # ""
      [] v[1] = "int" -> v[2] # "0"
      [] v[1] = "list" -> v[2] # "[]"
      [] OTHER -> TRUE

\* str(v) as an f-string renders it.
PyStr(v) == IF v = None THEN "None" ELSE v[2]

Keys == {"area_problema", "fatos_chave", "urgencia"}

EmptyDict == [k \in Keys |-> Absent]

\* d.get(k) and d.get(k, default) of a Python dict.
DictGet(d, k) == IF d[k] = Absent THEN None ELSE d[k]

DictGetDefault(d, k, default) == IF d[k] = Absent THEN default ELSE d[k]

\* A value json.loads can return: a dict, or another JSON value.
Data(type, text, d) == [type |-> type, text |-> text, d |-> d]

NoneData == Data("None", "", EmptyDict)

NotCalled == Data("not_called", "", EmptyDict)

TruthyData(p) ==
    IF p.type = "dict" THEN \E k \in Keys : p.d[k] # Absent
    ELSE Truthy(<<p.type, p.text>>)

Contains(s, sub) ==
    \E i \in 1..(Len(s) - Len(sub) + 1) : SubSeq(s, i, i + Len(sub) - 1) = sub

-----------------------------------------------------------------------------
(* Inputs *)

UserMessage == "Meu senhorio nao devolve meu deposito"

Messages ==
    {Absent, None, Str(""), Str(UserMessage),
     <<"int", "0">>, <<"int", "123">>, <<"list", "[]">>}

\* Request bodies: not JSON at all, JSON that is no object, or an object.
Bodies ==
    {[kind |-> k, message |-> Absent] : k \in {"not_json", "null", "list"}}
    \cup {[kind |-> "object", message |-> m] : m \in Messages}

UrgenciaLonga == "Extremamente urgente agora"

AreaValues == {Absent, None, Str("Saude"), Str("Direito Civil")}
FatosValues == {Absent, Str("Senhorio retem o deposito.")}
UrgenciaValues == {Absent, Str("Alta"), Str(UrgenciaLonga)}

Dicts ==
    {[area_problema |-> a, fatos_chave |-> f, urgencia |-> u] :
        a \in AreaValues, f \in FatosValues, u \in UrgenciaValues}

\* What client.models.generate_content does: raise, or answer a text that is
\* not JSON, or a text that json.loads parses to `value`.
LLMReplies ==
    {[kind |-> k, value |-> NoneData] : k \in {"api_error", "not_json"}}
    \cup {[kind |-> "json", value |-> Data("dict", "", d)] : d \in Dicts}
    \cup {[kind |-> "json", value |-> Data("None", "", EmptyDict)],
          [kind |-> "json", value |-> Data("list", "[1]", EmptyDict)]}

NoReply == [kind |-> "none", value |-> NoneData]

\* What the MySQL server does with this request's transaction.
DBFaults == {"none", "commit_error", "refresh_error"}

-----------------------------------------------------------------------------
(* 4. call_llm_api *)

\* The body of the try block: ValueError without the API key, whatever
\* generate_content raises, whatever json.loads raises; `except Exception`
\* turns each into None.  `api` tells whether the Gemini API was reached.
call_llm_api(e, user_message, llm) ==
    IF ~e.GEMINI_API_KEY
    THEN [ret |-> NoneData, api |-> FALSE,
          stdout |-> <<"ERRO GRAVE ao chamar a LLM: GEMINI_API_KEY">>]
    ELSE IF llm.kind = "api_error"
    THEN [ret |-> NoneData, api |-> TRUE,
          stdout |-> <<"ERRO GRAVE ao chamar a LLM: api">>]
    ELSE IF llm.kind = "not_json"
    THEN [ret |-> NoneData, api |-> TRUE,
          stdout |-> <<"ERRO GRAVE ao chamar a LLM: json">>]
    ELSE [ret |-> llm.value, api |-> TRUE, stdout |-> <<>>]

-----------------------------------------------------------------------------
(* 3. Caso and 5. persist_case_to_sql *)

AreaProblemaLen == 100
UrgenciaLen == 20

StatusDefault == "PENDENTE_ESPECIALISTA"

\* Caso(...): the object before it is flushed; id 0 stands for "no id yet".
Caso(area_problema, fatos_chave, urgencia) ==
    [id |-> 0, area_problema |-> area_problema, fatos_chave |-> fatos_chave,
     urgencia |-> urgencia, status |-> StatusDefault]

\* The INSERT fails on a NULL in a nullable=False column (IntegrityError) and,
\* the server being in its default strict mode, on a value longer than its
\* String(n) column (DataError); both are SQLAlchemyError.
InsertRejected(c) ==
    \/ c.area_problema = None \/ c.fatos_chave = None \/ c.urgencia = None
    \/ Len(PyStr(c.area_problema)) > AreaProblemaLen
    \/ Len(PyStr(c.urgencia)) > UrgenciaLen

\* Variant: the object is added to the session twice over, as two rows.
Insert_Twice(d_b, c) ==
    [table |-> d_b.table \cup
                 {[id |-> i,
                   area_problema |-> PyStr(c.area_problema),
                   fatos_chave |-> PyStr(c.fatos_chave),
                   urgencia |-> PyStr(c.urgencia),
                   status |-> c.status] : i \in {d_b.autoInc, d_b.autoInc + 1}},
     autoInc |-> d_b.autoInc + 2]

\* Variant: the insert overwrites the table instead of adding to it.
Insert_Replace(d_b, c) ==
    [table |-> {[id |-> d_b.autoInc,
                 area_problema |-> PyStr(c.area_problema),
                 fatos_chave |-> PyStr(c.fatos_chave),
                 urgencia |-> PyStr(c.urgencia),
                 status |-> c.status]},
     autoInc |-> d_b.autoInc + 1]

\* Variant: the id is not taken from the auto-increment counter.
Insert_FixedId(d_b, c) ==
    [table |-> d_b.table \cup
                 {[id |-> 1,
                   area_problema |-> PyStr(c.area_problema),
                   fatos_chave |-> PyStr(c.fatos_chave),
                   urgencia |-> PyStr(c.urgencia),
                   status |-> c.status]},
     autoInc |-> d_b.autoInc + 1]

\* db.session.add + commit of one Caso: the row gets the next auto-increment id.
Insert(d_b, c) ==
    [table |-> d_b.table \cup
                 {[id |-> d_b.autoInc,
                   area_problema |-> PyStr(c.area_problema),
                   fatos_chave |-> PyStr(c.fatos_chave),
                   urgencia |-> PyStr(c.urgencia),
                   status |-> c.status]},
     autoInc |-> d_b.autoInc + 1]

\* Variant: the error is not caught and leaves persist_case_to_sql.
OnSQLAlchemyError_Reraise(d_b) ==
    [db |-> d_b, ret |-> FALSE, raised |-> TRUE, committed |-> FALSE,
     stdout |-> <<>>]

\* except SQLAlchemyError: db.session.rollback() ends the transaction, leaving
\* the table as it was, and the function returns False.
OnSQLAlchemyError(d_b) ==
    [db |-> d_b, ret |-> FALSE, raised |-> FALSE, committed |-> FALSE,
     stdout |-> <<"ERRO MYSQL ao inserir caso">>]

\* fault "commit_error": the commit raises (server unreachable, ...).
\* fault "refresh_error": the commit succeeds, and the SELECT that reloads the
\* expired novo_caso for the print of novo_caso.id raises, inside the try.
persist_case_to_sql(d_b, case_data, fault) ==
    LET novo_caso == Caso(DictGet(case_data, "area_problema"),
                          DictGet(case_data, "fatos_chave"),
                          DictGet(case_data, "urgencia"))
    IN  IF fault = "commit_error" \/ InsertRejected(novo_caso)
        THEN OnSQLAlchemyError(d_b)
        ELSE IF fault = "refresh_error"
        THEN [OnSQLAlchemyError(Insert(d_b, novo_caso)) EXCEPT !.committed = TRUE]
        ELSE [db |-> Insert(d_b, novo_caso), ret |-> TRUE, raised |-> FALSE,
              committed |-> TRUE,
              stdout |-> <<"[MYSQL] Caso " \o ToString(d_b.autoInc)
                           \o " registrado para atendimento de especialista.">>]

NotPersisted ==
    [called |-> FALSE, ret |-> FALSE, raised |-> FALSE, committed |-> FALSE,
     created |-> 0]

-----------------------------------------------------------------------------
(* 6. the Flask routes *)

\* jsonify(...), code
Json(code, error, status, response_text, area_classified, urgency) ==
    [code |-> code, error |-> error, status |-> status,
     response_text |-> response_text, area_classified |-> area_classified,
     urgency |-> urgency, page |-> ""]

Error(code, error) == Json(code, error, "", "", Absent, Absent)

InvalidJson == "Formato JSON invalido"
MessageMissing == "O campo 'message' esta ausente"
TriageFailed ==
    "Houve uma falha na triagem do sistema. Por favor, tente novamente mais tarde."
StorageFailed == "Falha ao registrar e direcionar o caso no banco de dados."
\* Flask's answer to an exception that leaves the view function.
InternalServerError == "Internal Server Error"

NoResponse == Error(0, "")

\* Variant: the confirmation does not name the area.
success_message_NoArea(area_buscada) ==
    "Triagem Concluida! Sua solicitacao foi registrada e **direcionada para a "
    \o "fila de atendimento de um especialista**."

success_message(area_buscada) ==
    "Triagem Concluida! Sua solicitacao na area de **" \o PyStr(area_buscada)
    \o "** foi registrada e **direcionada para a fila de atendimento de um "
    \o "especialista**. Voce sera contatado(a) por ele(a) em breve."

\* request.get_json() raises on a body that is not JSON; data.get raises
\* AttributeError on JSON that is no object.
GetMessageRaises(body) == body.kind # "object"

Outcome(resp, d_b, nllm, reply, data, pers, out) ==
    [response |-> resp, db |-> d_b, calls |-> [llm |-> nllm, store |-> IF pers.called THEN 1 ELSE 0],
     llm_reply |-> reply, processed_data |-> data, persisted |-> pers,
     stdout |-> out]

\* Variant: only a missing message is refused (`if user_message is None`).
MessageRejected_OnlyNone(user_message) == user_message = None

\* `if not user_message`
MessageRejected(user_message) == ~Truthy(user_message)

\* Variant: the result of the classifier is used unchecked.
TriageSucceeded_Unchecked(data) == TRUE

\* `if processed_data`
TriageSucceeded(data) == TruthyData(data)

\* Variant: the return value of the store is ignored.
StoreFailed_Ignored(ret) == FALSE

\* `if not persist_case_to_sql(processed_data)`
StoreFailed(ret) == ~ret

\* The part of process_chat_message after the LLM call.
AfterLLM(d_b, llm, reply, out) ==
    LET data == llm.ret
    IN  IF ~TriageSucceeded(data)
        THEN Outcome(Error(500, TriageFailed), d_b, 1, reply, data,
                     NotPersisted, out)
        ELSE IF data.type # "dict"
        THEN \* processed_data.get raises AttributeError
             Outcome(Error(500, InternalServerError), d_b, 1, reply, data,
                     NotPersisted, out)
        ELSE
        LET area_buscada ==
                DictGetDefault(data.d, "area_problema", Str("Nao Classificado"))
            p == persist_case_to_sql(d_b, data.d, llm.fault)
            pers == [called |-> TRUE, ret |-> p.ret, raised |-> p.raised,
                     committed |-> p.committed,
                     created |-> Cardinality(p.db.table \ d_b.table)]
        IN  IF p.raised
            THEN Outcome(Error(500, InternalServerError), p.db, 1, reply, data,
                         pers, out \o p.stdout)
            ELSE IF StoreFailed(p.ret)
            THEN Outcome(Error(500, StorageFailed), p.db, 1, reply, data,
                         pers, out \o p.stdout)
            ELSE Outcome(Json(200, "", "success", success_message(area_buscada),
                              area_buscada, DictGet(data.d, "urgencia")),
                         p.db, 1, reply, data, pers, out \o p.stdout)

process_chat_message(d_b, e, body, llm_in, fault) ==
    IF GetMessageRaises(body)
    THEN Outcome(Error(400, InvalidJson), d_b, 0, NoReply, NotCalled,
                 NotPersisted, <<>>)
    ELSE
    LET user_message == IF body.message = Absent THEN None ELSE body.message
    IN  IF MessageRejected(user_message)
        THEN Outcome(Error(400, MessageMissing), d_b, 0, NoReply, NotCalled,
                     NotPersisted, <<>>)
        ELSE
        LET llm == call_llm_api(e, user_message, llm_in)
            out == <<"[RECEBIDO] Mensagem do usuario: " \o PyStr(user_message)>>
                   \o llm.stdout
        IN  AfterLLM(d_b, [ret |-> llm.ret, fault |-> fault],
                     IF llm.api THEN llm_in ELSE NoReply, out)

\* GET /chat
chat_page == [Error(200, "") EXCEPT !.page = "chat.html"]

(* tasks.py *)
process_new_case_job(case_data) ==
    <<"--- INICIANDO PROCESSAMENTO DO CASO PELO WORKER ---",
      "Area Classificada: " \o PyStr(DictGet(case_data, "area_problema")),
      "Resumo do Caso: " \o PyStr(DictGet(case_data, "fatos_chave")),
      "--- CASO PROCESSADO E ENVIADO PARA ATENDIMENTO ---">>

-----------------------------------------------------------------------------
(* The state machine *)

\* A TriageRecord: the three fields present and not null.
ValidRecord(data) ==
    data.type = "dict" /\ \A k \in Keys : data.d[k][1] = "str"

NoRequest == [route |-> "", body |-> [kind |-> "", message |-> Absent]]

\* After `python app.py`: db.create_all() has made an empty table.
Init ==
    /\ db = [table |-> {}, autoInc |-> 1]
    /\ env \in [GEMINI_API_KEY : BOOLEAN]
    /\ request = NoRequest
    /\ response = NoResponse
    /\ calls = [llm |-> 0, store |-> 0]
    /\ llm_reply = NoReply
    /\ processed_data = NotCalled
    /\ persisted = NotPersisted
    /\ stdout = <<>>
    /\ history = [requests |-> 0, records |-> 0, commits |-> 0]

SendMessage(body, llm_in, fault) ==
    /\ history.requests < MaxRequests
    /\ \E o \in {process_chat_message(db, env, body, llm_in, fault)} :
           /\ db' = o.db
           /\ request' = [route |-> "POST /send_message", body |-> body]
           /\ response' = o.response
           /\ calls' = o.calls
           /\ llm_reply' = o.llm_reply
           /\ processed_data' = o.processed_data
           /\ persisted' = o.persisted
           /\ stdout' = o.stdout
           /\ history' =
                [requests |-> history.requests + 1,
                 records |-> history.records
                     + (IF ValidRecord(o.processed_data) THEN 1 ELSE 0),
                 commits |-> history.commits
                     + (IF o.persisted.committed THEN 1 ELSE 0)]
    /\ UNCHANGED env

ChatPage ==
    /\ request' = [NoRequest EXCEPT !.route = "GET /chat"]
    /\ response' = chat_page
    /\ calls' = [llm |-> 0, store |-> 0]
    /\ llm_reply' = NoReply
    /\ processed_data' = NotCalled
    /\ persisted' = NotPersisted
    /\ stdout' = <<>>
    /\ UNCHANGED <<db, env, history>>

\* The queue worker runs the job on a dequeued case.
WorkerJob(case_data) ==
    /\ stdout' = process_new_case_job(case_data)
    /\ UNCHANGED <<db, env, request, response, calls, llm_reply,
                   processed_data, persisted, history>>

QueuedCases ==
    {d \in Dicts : d.fatos_chave # Absent /\ d.urgencia = Str("Alta")}

\* The collaborators answer only when they are asked: a request that never
\* reaches the Gemini API draws no reply, one that never reaches MySQL no fault.
RepliesFor(body) ==
    IF env.GEMINI_API_KEY
       /\ process_chat_message(db, env, body, NoReply, "none").calls.llm = 1
    THEN LLMReplies ELSE {NoReply}

FaultsFor(body, llm_in) ==
    IF process_chat_message(db, env, body, llm_in, "none").persisted.called
    THEN DBFaults ELSE {"none"}

Next ==
    \/ \E body \in Bodies :
          \E llm_in \in RepliesFor(body) :
             \E fault \in FaultsFor(body, llm_in) :
                SendMessage(body, llm_in, fault)
    \/ ChatPage
    \/ \E case_data \in QueuedCases : WorkerJob(case_data)

Spec == Init /\ [][Next]_vars

-----------------------------------------------------------------------------
(* Properties *)

Posted == request.route = "POST /send_message"

\* The message of the last request is a non-empty string.
StringMessage ==
    /\ request.body.kind = "object"
    /\ request.body.message[1] = "str"
    /\ request.body.message[2] # ""

\* C1: a POST /send_message whose body is not valid JSON, or whose message is
\* absent or empty, is answered 400 and calls neither the classifier nor the
\* store.
C1_BadRequestCallsNothing ==
    (Posted /\ (\/ request.body.kind # "object"
                \/ request.body.message \in {Absent, Str("")}))
    => (response.code = 400 /\ calls.llm = 0 /\ calls.store = 0
        /\ ~persisted.called /\ processed_data = NotCalled)

C1_Witness ==
    /\ Posted /\ request.body.kind = "object"
    /\ request.body.message = Str("")
    /\ response = Error(400, MessageMissing)
    /\ db.table # {}

\* C2: when the classifier returns no record for a valid non-empty message,
\* the answer is 500 with the triage-failure message, the store is not
\* invoked and no Case is created.
C2_TriageFailureSkipsStore ==
    (Posted /\ StringMessage /\ calls.llm = 1 /\ processed_data = NoneData)
    => (response = Error(500, TriageFailed) /\ calls.store = 0
        /\ ~persisted.called /\ persisted.created = 0)

C2_Witness ==
    /\ Posted /\ StringMessage
    /\ llm_reply.kind = "api_error" /\ processed_data = NoneData
    /\ response = Error(500, TriageFailed)

\* C3: when classification succeeds and the store reports failure, the answer
\* is 500 (storage failure), the classifier was called once and the store
\* once.
C3_StoreFailureNoRetry ==
    (Posted /\ ValidRecord(processed_data) /\ persisted.called
        /\ ~persisted.ret /\ ~persisted.raised)
    => (response = Error(500, StorageFailed)
        /\ calls.llm = 1 /\ calls.store = 1)

C3_Witness ==
    /\ Posted /\ ValidRecord(processed_data)
    /\ persisted.called /\ ~persisted.ret /\ ~persisted.committed
    /\ response = Error(500, StorageFailed)

\* C4: for a valid non-empty message and a well-formed TriageRecord, the store
\* succeeding, the answer is 200 with status "success", area_classified the
\* record's area_problema, urgency the record's urgencia, and a response_text
\* that contains the area_problema.
C4_SuccessPayload ==
    (Posted /\ StringMessage /\ ValidRecord(processed_data)
        /\ persisted.called /\ persisted.ret)
    => /\ response.code = 200
       /\ response.status = "success"
       /\ response.area_classified = processed_data.d.area_problema
       /\ response.urgency = processed_data.d.urgencia
       /\ Contains(response.response_text,
                   processed_data.d.area_problema[2])

C4_Witness ==
    /\ Posted /\ StringMessage /\ ValidRecord(processed_data)
    /\ persisted.ret
    /\ response.code = 200
    /\ response.area_classified = Str("Direito Civil")

\* The Gemini API answered a JSON object that lacks one of the three fields
\* or has it null.
IncompleteReply ==
    /\ llm_reply.kind = "json"
    /\ llm_reply.value.type = "dict"
    /\ \E k \in Keys : llm_reply.value.d[k] \in {Absent, None}

\* C5: a record of the LLM missing one of the three fields (or with one null)
\* is a classification failure: the classifier yields no record, the answer
\* is the triage-failure 500 and the store is not invoked.
C5_IncompleteRecordIsTriageFailure ==
    (Posted /\ IncompleteReply)
    => (processed_data = NoneData /\ response = Error(500, TriageFailed)
        /\ calls.store = 0)

\* C6: the classifier is invoked only with a message that is a non-empty
\* string.
C6_ClassifierGetsNonEmptyString ==
    (Posted /\ calls.llm = 1) => StringMessage

C8_CasesAreNeverChanged ==
    [][/\ db.table \subseteq db'.table
       /\ \A c \in db'.table : c.status = "PENDENTE_ESPECIALISTA"]_vars

C8_Witness ==
    /\ Cardinality(db.table) >= 2
    /\ stdout = process_new_case_job(
                   [area_problema |-> Str("Saude"),
                    fatos_chave |-> Str("Senhorio retem o deposito."),
                    urgencia |-> Str("Alta")])
    /\ history.requests = MaxRequests

\* C9: after a successful create the new Case, read back, has the record's
\* area_problema, fatos_chave and urgencia, status PENDENTE_ESPECIALISTA, and
\* an id that no Case had before the create.
C9_RoundTrip ==
    [][(history'.requests # history.requests /\ persisted'.ret)
       => \E c \in db'.table :
            /\ db'.table \ db.table = {c}
            /\ \A k \in Keys : processed_data'.d[k] = Str(c[k])
            /\ c.status = "PENDENTE_ESPECIALISTA"
            /\ \A o \in db.table : o.id # c.id]_vars

C9_Witness ==
    /\ Posted /\ persisted.ret
    /\ Cardinality(db.table) >= 2
    /\ \E c \in db.table :
          c.id = 2 /\ processed_data.d.area_problema = Str(c.area_problema)

\* C10: when the insert hits a storage-layer error, the store holds exactly
\* the Cases it held before the call and the create returns False instead of
\* raising into the request handler.
C10_InsertErrorRollsBack ==
    [][(history'.requests # history.requests
          /\ persisted'.called /\ ~persisted'.committed)
       => /\ db'.table = db.table
          /\ ~persisted'.ret /\ ~persisted'.raised
          /\ persisted'.created = 0
          /\ response' = Error(500, StorageFailed)]_vars

C10_Witness ==
    /\ Posted /\ persisted.called /\ ~persisted.committed
    /\ ~persisted.ret /\ ~persisted.raised
    /\ db.table # {}

====
